---- MODULE Spec2Model ----
(***************************************************************************)
(* Model of glados.py: the outcome translator (translate_message), the     *)
(* account client (sign, check_account_status) and the session             *)
(* orchestrator (multi_account_sign).                                      *)
(*                                                                         *)
(* A Python str is a sequence of one-character strings.  The fixed         *)
(* (non-ASCII) literals of the display templates are each one symbol of    *)
(* such a sequence; the comment at each symbol gives the literal.          *)
(* A decoded JSON value is a record [t, v]: t is its type, v its text      *)
(* (the characters of a string, the digits of a number, the elements of a  *)
(* list).  Python's None is the JSON null.                                 *)
(***************************************************************************)
EXTENDS Naturals, Sequences, FiniteSets

\* -------------------------------------------------------------------------
\* Bounds of the model
\* -------------------------------------------------------------------------
\* a message is the concatenation of at most MaxFrags fragments
MaxFrags == 4
\* environment slots GLADOS_EMAIL_i / GLADOS_COOKIE_i that may be set
MaxSlots == 2

\* -------------------------------------------------------------------------
\* Python str operations
\* -------------------------------------------------------------------------
UpperToLower ==
  [c \in {"A","B","C","D","E","F","G","H","I","J","K","L","M",
          "N","O","P","Q","R","S","T","U","V","W","X","Y","Z"} |->
     CASE c = "A" -> "a" [] c = "B" -> "b" [] c = "C" -> "c" [] c = "D" -> "d"
       [] c = "E" -> "e" [] c = "F" -> "f" [] c = "G" -> "g" [] c = "H" -> "h"
       [] c = "I" -> "i" [] c = "J" -> "j" [] c = "K" -> "k" [] c = "L" -> "l"
       [] c = "M" -> "m" [] c = "N" -> "n" [] c = "O" -> "o" [] c = "P" -> "p"
       [] c = "Q" -> "q" [] c = "R" -> "r" [] c = "S" -> "s" [] c = "T" -> "t"
       [] c = "U" -> "u" [] c = "V" -> "v" [] c = "W" -> "w" [] c = "X" -> "x"
       [] c = "Y" -> "y" [] c = "Z" -> "z"]

\* str.lower()
lower(s) ==
  [i \in 1..Len(s) |-> IF s[i] \in DOMAIN UpperToLower THEN UpperToLower[s[i]] ELSE s[i]]

\* the least index >= from at which sub occurs in s, 0 if there is none
Find(s, sub, from) ==
  LET hits == {i \in from..(Len(s) + 1 - Len(sub)) : SubSeq(s, i, i + Len(sub) - 1) = sub}
  IN  IF hits = {} THEN 0 ELSE CHOOSE i \in hits : \A j \in hits : i <= j

\* sub in s
In(sub, s) == Find(s, sub, 1) # 0

\* str.split(sep): the pieces between the leftmost non-overlapping
\* occurrences of sep (sep is never empty here)
RECURSIVE split(_, _)
split(s, sep) ==
  LET i == Find(s, sep, 1)
  IN  IF i = 0 THEN <<s>>
      ELSE <<SubSeq(s, 1, i - 1)>> \o split(SubSeq(s, i + Len(sep), Len(s)), sep)

\* -------------------------------------------------------------------------
\* Literals
\* -------------------------------------------------------------------------
PLEASE_TRY_TOMORROW ==
  <<"P","l","e","a","s","e"," ","T","r","y"," ","T","o","m","o","r","r","o","w">>
GOT_SP == <<"G","o","t"," ">>
SP_POINTS == <<" ","P","o","i","n","t","s">>
got == <<"g","o","t">>
repeat == <<"r","e","p","e","a","t">>
already == <<"a","l","r","e","a","d","y">>

EMPTY_MESSAGE == <<"(","e","m","p","t","y"," ","m","e","s","s","a","g","e",")">>

\* the fixed parts of the display templates, one symbol each
\* "签到失败，请明天再试 🤖"
RETRY_TOMORROW == <<"[check-in failed, try again tomorrow]">>
\* "签到成功，获得" ... "积分 🎉"
SUCCESS_GOT == <<"[check-in succeeded, got ">>
POINTS_END == <<" points]">>
\* "签到成功 🎉 (" ... ")"
SUCCESS_PLAIN == <<"[check-in succeeded] (">>
\* "重复签到，请明天再试 🔁"
ALREADY_CHECKED_IN == <<"[already checked in, try again tomorrow]">>
\* "未知的签到结果: " ... " ❓"
UNKNOWN_RESULT == <<"[unknown check-in result: ">>
UNKNOWN_END == <<" ?]">>

\* JSON values
JNull == [t |-> "null", v |-> <<>>]
JStr(s) == [t |-> "str", v |-> s]
JInt(digits) == [t |-> "int", v |-> digits]

\* bool(x) of a decoded value: None, "", 0 and [] are false
Truthy(x) ==
  CASE x.t = "null" -> FALSE
    [] x.t = "str"  -> x.v # <<>>
    [] x.t = "int"  -> x.v # <<"0">>
    [] x.t = "list" -> x.v # <<>>

\* str(x) as an f-string formats it
Format(x) ==
  CASE x.t = "null" -> <<"N","o","n","e">>
    [] x.t = "str"  -> x.v
    [] x.t = "int"  -> x.v
    [] x.t = "list" -> <<"[">> \o x.v \o <<"]">>

\* -------------------------------------------------------------------------
\* translate_message
\* -------------------------------------------------------------------------
Returned(s) == [exc |-> "", ret |-> s]
Raised(e) == [exc |-> e, ret |-> <<>>]

\* extract_points without the second split
extract_points_keeps_tail(raw_message) ==
  LET parts == split(raw_message.v, GOT_SP)
  IN  IF Len(parts) < 2 THEN JNull
      ELSE JStr(parts[2])

\* extract_points whose failed lookup yields the text instead of None
extract_points_never_fails(raw_message) ==
  LET parts == split(raw_message.v, GOT_SP)
  IN  IF Len(parts) < 2 THEN JStr(parts[1])
      ELSE JStr(split(parts[2], SP_POINTS)[1])

\* the points taken from the message: split("Got ")[1].split(" Points")[0],
\* None when the index is out of range
extract_points(raw_message) ==
  LET parts == split(raw_message.v, GOT_SP)
  IN  IF Len(parts) < 2 THEN JNull
      ELSE JStr(split(parts[2], SP_POINTS)[1])

\* translate_message with the "repeat"/"already" rule ahead of the "got" rule
translate_message_repeat_first(raw_message, points) ==
  IF raw_message = JStr(PLEASE_TRY_TOMORROW)
    THEN Returned(RETRY_TOMORROW)
  ELSE IF Truthy(raw_message) /\ raw_message.t # "str"
    THEN Raised("AttributeError")
  ELSE
    LET msg_lower == lower(IF Truthy(raw_message) THEN raw_message.v ELSE <<>>)
        pts == IF points = JNull THEN extract_points(raw_message) ELSE points
    IN  IF In(repeat, msg_lower) \/ In(already, msg_lower)
          THEN Returned(ALREADY_CHECKED_IN)
        ELSE IF In(got, msg_lower)
          THEN IF pts # JNull
                 THEN Returned(SUCCESS_GOT \o Format(pts) \o POINTS_END)
                 ELSE Returned(SUCCESS_PLAIN \o Format(raw_message) \o <<")">>)
        ELSE IF Truthy(raw_message)
          THEN Returned(UNKNOWN_RESULT \o Format(raw_message) \o UNKNOWN_END)
        ELSE Returned(UNKNOWN_RESULT \o EMPTY_MESSAGE \o UNKNOWN_END)

\* translate_message whose first rule matches a message containing the literal
translate_message_contains(raw_message, points) ==
  IF raw_message.t = "str" /\ In(PLEASE_TRY_TOMORROW, raw_message.v)
    THEN Returned(RETRY_TOMORROW)
  ELSE IF Truthy(raw_message) /\ raw_message.t # "str"
    THEN Raised("AttributeError")
  ELSE
    LET msg_lower == lower(IF Truthy(raw_message) THEN raw_message.v ELSE <<>>)
        pts == IF points = JNull THEN extract_points(raw_message) ELSE points
    IN  IF In(got, msg_lower)
          THEN IF pts # JNull
                 THEN Returned(SUCCESS_GOT \o Format(pts) \o POINTS_END)
                 ELSE Returned(SUCCESS_PLAIN \o Format(raw_message) \o <<")">>)
        ELSE IF In(repeat, msg_lower) \/ In(already, msg_lower)
          THEN Returned(ALREADY_CHECKED_IN)
        ELSE IF Truthy(raw_message)
          THEN Returned(UNKNOWN_RESULT \o Format(raw_message) \o UNKNOWN_END)
        ELSE Returned(UNKNOWN_RESULT \o EMPTY_MESSAGE \o UNKNOWN_END)

translate_message(raw_message, points) ==
  IF raw_message = JStr(PLEASE_TRY_TOMORROW)
    THEN Returned(RETRY_TOMORROW)
  ELSE IF Truthy(raw_message) /\ raw_message.t # "str"
    THEN Raised("AttributeError")
  ELSE
    LET msg_lower == lower(IF Truthy(raw_message) THEN raw_message.v ELSE <<>>)
        pts == IF points = JNull THEN extract_points(raw_message) ELSE points
    IN  IF In(got, msg_lower)
          THEN IF pts # JNull
                 THEN Returned(SUCCESS_GOT \o Format(pts) \o POINTS_END)
                 ELSE Returned(SUCCESS_PLAIN \o Format(raw_message) \o <<")">>)
        ELSE IF In(repeat, msg_lower) \/ In(already, msg_lower)
          THEN Returned(ALREADY_CHECKED_IN)
        ELSE IF Truthy(raw_message)
          THEN Returned(UNKNOWN_RESULT \o Format(raw_message) \o UNKNOWN_END)
        ELSE Returned(UNKNOWN_RESULT \o EMPTY_MESSAGE \o UNKNOWN_END)

\* -------------------------------------------------------------------------
\* Decoded bodies.  A JSON object is [t |-> "obj", keys, ...]: keys is the
\* set of its keys, and the fields the program reads hold their values.
\* -------------------------------------------------------------------------
\* the body of a check-in response
Body(t, v, keys, message, points) ==
  [t |-> t, v |-> v, keys |-> keys, message |-> message, points |-> points]
NoneBody == Body("null", <<>>, {}, JNull, JNull)

\* the "data" member of a status response, and the body around it
Data(t, v, keys, leftDays) == [t |-> t, v |-> v, keys |-> keys, leftDays |-> leftDays]
NoneData == Data("null", <<>>, {}, JNull)
StatusBody(t, v, keys, data) == [t |-> t, v |-> v, keys |-> keys, data |-> data]
NoneStatusBody == StatusBody("null", <<>>, {}, NoneData)

\* bool(x) of a decoded body: an object is true when it has a key
TruthyBody(x) == IF x.t = "obj" THEN x.keys # {} ELSE Truthy(x)

\* an HTTP exchange: a transport failure (requests.RequestException with
\* its text), or a response with a status code and a body that decodes as
\* JSON or does not
TransportFailure(e) == [transport |-> "fail", error |-> e, status_code |-> <<>>, json |-> FALSE]
Response(code, json) == [transport |-> "ok", error |-> <<>>, status_code |-> code, json |-> json]

\* safe_json: the decoded body, None when the body is not JSON
safe_json(resp, body, none) == IF resp.json THEN body ELSE none

\* -------------------------------------------------------------------------
\* Report lines
\* -------------------------------------------------------------------------
\* "<b>{email}</b>: "
Prefix(email) == <<"<","b",">">> \o email \o <<"<","/","b",">",":"," ">>
\* "请求失败: "
REQUEST_FAILED == <<"[request failed: ">>
\* "解析响应失败: HTTP "
PARSE_FAILED_HTTP == <<"[parse failed: HTTP ">>
\* "获取状态失败 - " ... " ❌"
STATUS_FAILED == <<"[status failed - ">>
\* "解析响应失败 - HTTP " and "解析响应失败 - " ... " ❌"
STATUS_PARSE_FAILED_HTTP == <<"[parse failed - HTTP ">>
STATUS_PARSE_FAILED == <<"[parse failed - ">>
FAIL_END == <<" X]">>
\* "剩余 " ... " 天 🗓️"
LEFT_DAYS == <<"[left ">>
DAYS_END == <<" days]">>
\* beijing_time.strftime('%Y-%m-%d %H:%M'): the clock is not modelled
NOW == <<"[now]">>

\* -------------------------------------------------------------------------
\* format_days
\* -------------------------------------------------------------------------
Digits == {"0","1","2","3","4","5","6","7","8","9"}
IsDigits(s) == Len(s) > 0 /\ \A i \in 1..Len(s) : s[i] \in Digits

RECURSIVE lstrip0(_)
lstrip0(s) == IF Len(s) > 1 /\ Head(s) = "0" THEN lstrip0(Tail(s)) ELSE s
RECURSIVE rstrip0(_)
rstrip0(s) == IF Len(s) > 0 /\ s[Len(s)] = "0" THEN rstrip0(SubSeq(s, 1, Len(s) - 1)) ELSE s

\* float(days_str) of a decimal literal with at most 8 decimals, kept as its
\* integer digits and its 8 decimals; inexact binary rounding is not modelled
FRAC_DIGITS == 8
IsDecimal(s) ==
  LET dot == Find(s, <<".">>, 1)
  IN  IF dot = 0 THEN IsDigits(s)
      ELSE /\ IsDigits(SubSeq(s, 1, dot - 1))
           /\ IsDigits(SubSeq(s, dot + 1, Len(s)))
           /\ Len(s) - dot <= FRAC_DIGITS
Whole(s) == LET dot == Find(s, <<".">>, 1)
            IN  lstrip0(IF dot = 0 THEN s ELSE SubSeq(s, 1, dot - 1))
Frac(s) == LET dot == Find(s, <<".">>, 1)
               f == IF dot = 0 THEN <<>> ELSE SubSeq(s, dot + 1, Len(s))
           IN  f \o [i \in 1..(FRAC_DIGITS - Len(f)) |-> "0"]

format_days(days_str) ==
  IF days_str.t \in {"null", "list"} THEN Raised("TypeError")
  ELSE IF ~IsDecimal(days_str.v) THEN Raised("ValueError")
  ELSE IF rstrip0(Frac(days_str.v)) = <<>>
    THEN Returned(Whole(days_str.v))
  ELSE Returned(Whole(days_str.v) \o <<".">> \o rstrip0(Frac(days_str.v)))

\* -------------------------------------------------------------------------
\* Account client
\* -------------------------------------------------------------------------
\* data["data"]["leftDays"]
left_days_of(data) ==
  IF data.t # "obj" THEN Raised("TypeError")
  ELSE IF "data" \notin data.keys THEN Raised("KeyError")
  ELSE IF data.data.t # "obj" THEN Raised("TypeError")
  ELSE IF "leftDays" \notin data.data.keys THEN Raised("KeyError")
  ELSE format_days(data.data.leftDays)

check_account_status(email, resp, body) ==
  IF resp.transport = "fail"
    THEN Returned(Prefix(email) \o STATUS_FAILED \o resp.error \o FAIL_END)
  ELSE
    LET data == safe_json(resp, body, NoneStatusBody)
    IN  IF ~TruthyBody(data)
          THEN Returned(Prefix(email) \o STATUS_PARSE_FAILED_HTTP \o resp.status_code \o FAIL_END)
        ELSE
          LET left_days == left_days_of(data)
          IN  IF left_days.exc = ""
                THEN Returned(Prefix(email) \o LEFT_DAYS \o left_days.ret \o DAYS_END)
                ELSE Returned(Prefix(email) \o STATUS_PARSE_FAILED \o <<left_days.exc>> \o FAIL_END)

\* dict.get(key, default) on the two keys sign reads
get_message(response_data) ==
  IF "message" \in response_data.keys THEN response_data.message ELSE JStr(<<>>)
get_points(response_data) ==
  IF "points" \in response_data.keys THEN response_data.points ELSE JNull

\* sign: what it returns or raises, and the line it prints
Signed(exc, printed, ret) == [exc |-> exc, printed |-> printed, ret |-> ret]

sign(email, resp, body) ==
  IF resp.transport = "fail"
    THEN LET translated_message == REQUEST_FAILED \o resp.error
         IN  Signed("", <<NOW \o <<" ">> \o email \o <<":"," ">> \o translated_message>>,
                    Prefix(email) \o translated_message)
  ELSE
    LET response_data == safe_json(resp, body, NoneBody)
        translated ==
          IF ~TruthyBody(response_data)
            THEN Returned(PARSE_FAILED_HTTP \o resp.status_code)
          ELSE IF response_data.t # "obj"
            THEN Raised("AttributeError")
          ELSE translate_message(get_message(response_data), get_points(response_data))
    IN  IF translated.exc # ""
          THEN Signed(translated.exc, <<>>, <<>>)
          ELSE Signed("", <<NOW \o <<" ","e","m",":"," ">> \o translated.ret>>,
                      Prefix(email) \o translated.ret)

\* -------------------------------------------------------------------------
\* send_notification
\* -------------------------------------------------------------------------
\* "\n".join(lines)
RECURSIVE join(_)
join(lines) ==
  IF lines = <<>> THEN <<>>
  ELSE IF Len(lines) = 1 THEN lines[1]
  ELSE lines[1] \o <<"\n">> \o join(Tail(lines))

\* "🔔 GLaDOS 签到结果:\n", "\n⏳ GLaDOS 账号状态:\n", "🕒 当前时间: ", "✅ 签到任务完成"
SIGN_HEADER == <<"[check-in results:]", "\n">>
STATUS_HEADER == <<"\n", "[account status:]", "\n">>
TIME_HEADER == <<"[time: ">>
TASK_DONE == <<"[check-in task done]">>
\* "发送 Telegram 消息失败: "
SEND_FAILED == <<"[sending the Telegram message failed: ">>

notification_text(sign_msgs, status_msgs) ==
  LET sign_text == SIGN_HEADER \o join(sign_msgs)
      status_text == STATUS_HEADER \o join(status_msgs)
  IN  TIME_HEADER \o NOW \o <<"\n", "\n">> \o sign_text \o <<"\n">> \o status_text
        \o <<"\n", "\n">> \o TASK_DONE

\* the POST of send_notification
send_notification(sign_msgs, status_msgs, token, chat) ==
  [bot_token |-> token, chat_id |-> chat, text |-> notification_text(sign_msgs, status_msgs)]

\* -------------------------------------------------------------------------
\* The environment and the servers
\* -------------------------------------------------------------------------
DigitOf == <<"1","2","3","4","5","6","7","8","9">>
EmailOf(i) == <<"u", DigitOf[i], "@", "x">>
CookieOf(i) == <<"k", DigitOf[i]>>

\* a variable of the environment: unset, empty or set
EnvValues(value) == {JNull, JStr(<<>>), JStr(value)}

Environments ==
  [TG_BOT_TOKEN : EnvValues(<<"T">>),
   TG_CHAT_ID : EnvValues(<<"4","2">>),
   email : {e \in [1..MaxSlots -> {JNull, JStr(<<>>)} \cup {JStr(EmailOf(i)) : i \in 1..MaxSlots}] :
              \A i \in 1..MaxSlots : e[i] \in EnvValues(EmailOf(i))},
   cookie : {c \in [1..MaxSlots -> {JNull, JStr(<<>>)} \cup {JStr(CookieOf(i)) : i \in 1..MaxSlots}] :
              \A i \in 1..MaxSlots : c[i] \in EnvValues(CookieOf(i))}]

HTTP_200 == <<"2","0","0">>
HTTP_502 == <<"5","0","2">>
TIMED_OUT == <<"t","i","m","e","d"," ","o","u","t">>

\* what the check-in endpoint may answer: the exchange and the decoded body
CheckinExchanges ==
  { [resp |-> TransportFailure(TIMED_OUT), body |-> NoneBody],
    [resp |-> Response(HTTP_502, FALSE), body |-> NoneBody],
    [resp |-> Response(HTTP_200, TRUE), body |-> Body("obj", <<>>, {}, JNull, JNull)],
    [resp |-> Response(HTTP_200, TRUE), body |-> Body("obj", <<>>, {"code"}, JNull, JNull)],
    [resp |-> Response(HTTP_200, TRUE),
     body |-> Body("obj", <<>>, {"code", "message", "points"},
                   JStr(<<"O","K","!"," ">> \o GOT_SP \o <<"5">> \o SP_POINTS), JInt(<<"5">>))],
    [resp |-> Response(HTTP_200, TRUE),
     body |-> Body("obj", <<>>, {"code", "message"}, JStr(PLEASE_TRY_TOMORROW), JNull)],
    [resp |-> Response(HTTP_200, TRUE),
     body |-> Body("obj", <<>>, {"code", "message"}, JInt(<<"7">>), JNull)],
    [resp |-> Response(HTTP_200, TRUE), body |-> Body("list", <<"1">>, {}, JNull, JNull)] }

\* what the status endpoint may answer
StatusExchanges ==
  { [resp |-> TransportFailure(TIMED_OUT), body |-> NoneStatusBody],
    [resp |-> Response(HTTP_502, FALSE), body |-> NoneStatusBody],
    [resp |-> Response(HTTP_200, TRUE), body |-> StatusBody("obj", <<>>, {"code"}, NoneData)],
    [resp |-> Response(HTTP_200, TRUE),
     body |-> StatusBody("obj", <<>>, {"code", "data"},
                         Data("obj", <<>>, {"leftDays"}, JStr(<<"3",".","5","0","0","0","0","0","0","0">>)))],
    [resp |-> Response(HTTP_200, TRUE),
     body |-> StatusBody("obj", <<>>, {"code", "data"},
                         Data("obj", <<>>, {"leftDays"}, JStr(<<"3","0",".","0","0","0","0","0","0","0","0">>)))],
    [resp |-> Response(HTTP_200, TRUE),
     body |-> StatusBody("obj", <<>>, {"code", "data"}, Data("obj", <<>>, {"email"}, JNull))] }

\* random.randint(5, 15)
SLEEP_MIN == 5
SLEEP_MAX == 15

\* -------------------------------------------------------------------------
\* multi_account_sign
\* -------------------------------------------------------------------------
VARIABLES
  env,              \* os.environ
  pc,               \* "start", "sign", "status", "sleep", "sleeping", "notify", "done",
                    \* "raised" (an exception left multi_account_sign), "off"
  bot_token, chat_id, accounts,
  idx,              \* the position of the for loop in accounts
  sign_messages, status_messages,
  response,         \* the exchange of the last check-in or status call
  calls,            \* the HTTP calls issued to the account service, in order
  sleeps,           \* the account after which each time.sleep happened
  sleeping,         \* the seconds of the time.sleep in progress, 0 when there is none
  notifications,    \* the POSTs to the Telegram endpoint
  console,          \* the lines printed
  t_pc, t_raw, t_points, t_result   \* one call of translate_message

ovars == <<env, pc, bot_token, chat_id, accounts, idx, sign_messages, status_messages,
           response, calls, sleeps, sleeping, notifications, console>>
tvars == <<t_pc, t_raw, t_points, t_result>>
vars == <<ovars, tvars>>

\* os.getenv(f"GLADOS_EMAIL_{i}") and os.getenv(f"GLADOS_COOKIE_{i}")
getenv_email(e, i) == IF i \in DOMAIN e.email THEN e.email[i] ELSE JNull
getenv_cookie(e, i) == IF i \in DOMAIN e.cookie THEN e.cookie[i] ELSE JNull

\* load_accounts that stops only when both members are missing
RECURSIVE load_accounts_either(_, _)
load_accounts_either(e, i) ==
  LET email == getenv_email(e, i)
      cookie == getenv_cookie(e, i)
  IN  IF ~Truthy(email) /\ ~Truthy(cookie) THEN <<>>
      ELSE <<[email |-> email.v, cookie |-> cookie.v]>> \o load_accounts_either(e, i + 1)

\* the while loop that collects the accounts from index i on
RECURSIVE load_accounts(_, _)
load_accounts(e, i) ==
  LET email == getenv_email(e, i)
      cookie == getenv_cookie(e, i)
  IN  IF ~Truthy(email) \/ ~Truthy(cookie) THEN <<>>
      ELSE <<[email |-> email.v, cookie |-> cookie.v]>> \o load_accounts(e, i + 1)

\* "未找到账号信息，请检查环境变量或 .env 文件"
NO_ACCOUNTS == <<"[no account found, check the environment or the .env file]">>
\* "未设置 TG_BOT_TOKEN / TG_CHAT_ID，将只在控制台输出，不发送 Telegram 通知"
NO_TELEGRAM == <<"[TG_BOT_TOKEN / TG_CHAT_ID not set, console output only]">>

NoExchange == [resp |-> Response(<<>>, FALSE), op |-> "none", body |-> NoneBody]

Idle == /\ t_pc = "idle" /\ t_raw = JNull /\ t_points = JNull /\ t_result = Returned(<<>>)

Init ==
  /\ env \in Environments
  /\ pc = "start"
  /\ bot_token = JNull /\ chat_id = JNull /\ accounts = <<>>
  /\ idx = 0
  /\ sign_messages = <<>> /\ status_messages = <<>>
  /\ response = NoExchange
  /\ calls = <<>> /\ sleeps = <<>> /\ sleeping = 0 /\ notifications = <<>> /\ console = <<>>
  /\ Idle

\* lines 200-222: read the environment, collect the accounts
Start ==
  /\ pc = "start"
  /\ bot_token' = env.TG_BOT_TOKEN
  /\ chat_id' = env.TG_CHAT_ID
  /\ accounts' = load_accounts(env, 1)
  /\ IF accounts' = <<>>
       THEN /\ console' = Append(console, NO_ACCOUNTS)
            /\ pc' = "done"
            /\ idx' = idx
       ELSE /\ console' = IF ~Truthy(bot_token') \/ ~Truthy(chat_id')
                            THEN Append(console, NO_TELEGRAM) ELSE console
            /\ pc' = "sign"
            /\ idx' = 1
  /\ UNCHANGED <<env, sign_messages, status_messages, response, calls, sleeps, sleeping, notifications, tvars>>

\* lines 227-228: the check-in call of the account at idx
SignStep ==
  /\ pc = "sign"
  /\ \E x \in CheckinExchanges :
       LET sign_result == sign(accounts[idx].email, x.resp, x.body)
       IN  /\ calls' = Append(calls, [op |-> "checkin", account |-> idx])
           /\ response' = [resp |-> x.resp, op |-> "checkin", body |-> x.body]
           /\ IF sign_result.exc # ""
                THEN /\ pc' = "raised"
                     /\ UNCHANGED <<sign_messages, console>>
                ELSE /\ pc' = "status"
                     /\ sign_messages' = Append(sign_messages, sign_result.ret)
                     /\ console' = console \o sign_result.printed
  /\ UNCHANGED <<env, bot_token, chat_id, accounts, idx, status_messages, sleeps, sleeping, notifications, tvars>>

\* lines 229-230: the status call of the account at idx
StatusStep ==
  /\ pc = "status"
  /\ \E x \in StatusExchanges :
       LET status_result == check_account_status(accounts[idx].email, x.resp, x.body)
       IN  /\ calls' = Append(calls, [op |-> "status", account |-> idx])
           /\ response' = [resp |-> x.resp, op |-> "status", body |-> x.body]
           /\ status_messages' = Append(status_messages, status_result.ret)
           /\ pc' = "sleep"
  /\ UNCHANGED <<env, bot_token, chat_id, accounts, idx, sign_messages, sleeps, sleeping, notifications, console, tvars>>

\* line 231: time.sleep(random.randint(5, 15)) begins
SleepStep ==
  /\ pc = "sleep"
  /\ \E seconds \in SLEEP_MIN..SLEEP_MAX : sleeping' = seconds
  /\ sleeps' = Append(sleeps, idx)
  /\ pc' = "sleeping"
  /\ UNCHANGED <<env, bot_token, chat_id, accounts, idx, sign_messages, status_messages, response,
                 calls, notifications, console, tvars>>

\* time.sleep returns, and the for loop steps to the next account or ends
WakeStep ==
  /\ pc = "sleeping"
  /\ sleeping' = 0
  /\ IF idx < Len(accounts)
       THEN idx' = idx + 1 /\ pc' = "sign"
       ELSE idx' = idx /\ pc' = "notify"
  /\ UNCHANGED <<env, bot_token, chat_id, accounts, sign_messages, status_messages, response,
                 calls, sleeps, notifications, console, tvars>>

\* lines 233-234: the notification, whose POST succeeds or fails
NotifyStep ==
  /\ pc = "notify"
  /\ IF Truthy(bot_token) /\ Truthy(chat_id)
       THEN /\ notifications' = Append(notifications,
                 send_notification(sign_messages, status_messages, bot_token.v, chat_id.v))
            /\ \E delivered \in BOOLEAN :
                 console' = IF delivered THEN console
                            ELSE Append(console, SEND_FAILED \o TIMED_OUT)
       ELSE UNCHANGED <<notifications, console>>
  /\ pc' = "done"
  /\ UNCHANGED <<env, bot_token, chat_id, accounts, idx, sign_messages, status_messages, response,
                 calls, sleeps, sleeping, tvars>>

Next == Start \/ SignStep \/ StatusStep \/ SleepStep \/ WakeStep \/ NotifyStep

Spec == Init /\ [][Next]_vars

\* -------------------------------------------------------------------------
\* translate_message on its own: one call on a message and a points value
\* -------------------------------------------------------------------------
GOT_UPPER == <<"G","O","T">>
Fragments ==
  { GOT_SP, GOT_UPPER, SP_POINTS, <<"5">>, <<"R","e","p","e","a","t">>, already,
    PLEASE_TRY_TOMORROW }

\* the concatenations of at most n fragments
RECURSIVE Messages(_)
Messages(n) ==
  IF n = 0 THEN {<<>>}
  ELSE LET shorter == Messages(n - 1)
       IN  shorter \cup {m \o f : m \in shorter, f \in Fragments}

\* response_data.get("message", ""): a string, or None for a JSON null
RawMessages == {JStr(m) : m \in Messages(MaxFrags)} \cup {JNull}
\* response_data.get("points")
PointsValues == {JNull, JInt(<<"0">>), JInt(<<"7">>), JStr(<<"3">>)}

InitTranslate ==
  /\ env = [TG_BOT_TOKEN |-> JNull, TG_CHAT_ID |-> JNull,
            email |-> [i \in 1..MaxSlots |-> JNull], cookie |-> [i \in 1..MaxSlots |-> JNull]]
  /\ pc = "off"
  /\ bot_token = JNull /\ chat_id = JNull /\ accounts = <<>>
  /\ idx = 0
  /\ sign_messages = <<>> /\ status_messages = <<>>
  /\ response = NoExchange
  /\ calls = <<>> /\ sleeps = <<>> /\ sleeping = 0 /\ notifications = <<>> /\ console = <<>>
  /\ t_pc = "call"
  /\ t_raw \in RawMessages
  /\ t_points \in PointsValues
  /\ t_result = Returned(<<>>)

TranslateStep ==
  /\ t_pc = "call"
  /\ t_result' = translate_message(t_raw, t_points)
  /\ t_pc' = "returned"
  /\ UNCHANGED <<t_raw, t_points, ovars>>

NextTranslate == TranslateStep

SpecTranslate == InitTranslate /\ [][NextTranslate]_vars

\* -------------------------------------------------------------------------
\* Properties of multi_account_sign (specification Spec)
\* -------------------------------------------------------------------------
Ended == pc \in {"done", "raised"}
N == Len(accounts)

\* checkin(1), status(1), ..., checkin(n), status(n)
ExpectedCalls(n) ==
  [k \in 1..(2 * n) |->
     [op |-> IF k % 2 = 1 THEN "checkin" ELSE "status", account |-> (k + 1) \div 2]]

\* C1: a run over N >= 1 accounts issues exactly the 2N calls checkin(1),
\* status(1), ..., checkin(N), status(N), whatever the servers answer.
C1_AllCallsInOrder == (Ended /\ N >= 1) => calls = ExpectedCalls(N)

\* C2: a run over N >= 1 accounts sleeps only between consecutive accounts,
\* N-1 times, and not after the last account.
C2_SleepsBetweenAccounts ==
  (pc = "done" /\ N >= 1) =>
     /\ Len(sleeps) = N - 1
     /\ \A k \in 1..Len(sleeps) : sleeps[k] = k /\ k < N

NoAccountConfigured ==
  ~Truthy(getenv_email(env, 1)) \/ ~Truthy(getenv_cookie(env, 1))

\* C3: when the first identifier/credential pair is missing or has an empty
\* member, the run prints that no account was found and ends with no HTTP
\* call, no sleep and no notification, whatever the notification settings.
C3_NoAccountsNoEffects ==
  (pc # "start" /\ NoAccountConfigured) =>
     /\ pc = "done"
     /\ calls = <<>> /\ response = NoExchange
     /\ sleeps = <<>> /\ sleeping = 0
     /\ notifications = <<>>
     /\ console = <<NO_ACCOUNTS>>

\* a run that ended without an account although the notification is
\* configured and only one member of the first pair is empty
C3_Witness ==
  /\ pc = "done"
  /\ env.email[1] = JStr(<<>>) /\ Truthy(env.cookie[1])
  /\ Truthy(env.TG_BOT_TOKEN) /\ Truthy(env.TG_CHAT_ID)
  /\ console = <<NO_ACCOUNTS>>

\* C4: no exception leaves sign or check_account_status, whatever the
\* servers answer, so the run never ends by an exception.
C4_NothingPropagates == pc # "raised"

HasPrefix(line, email) ==
  Len(line) >= Len(Prefix(email)) /\ SubSeq(line, 1, Len(Prefix(email))) = Prefix(email)

\* C5: a run over N >= 1 accounts notifies exactly once when token and
\* chat id are both set and never otherwise; the notification comes after
\* the last status call and carries the N check-in lines and the N status
\* lines, in account order, each prefixed with its account's identifier.
C5_NotifiedOnce ==
  (Ended /\ N >= 1) =>
     /\ Len(notifications) = IF Truthy(bot_token) /\ Truthy(chat_id) THEN 1 ELSE 0
     /\ \A k \in 1..Len(notifications) :
          /\ calls = ExpectedCalls(N)
          /\ Len(sign_messages) = N /\ Len(status_messages) = N
          /\ \A i \in 1..N : /\ HasPrefix(sign_messages[i], accounts[i].email)
                             /\ HasPrefix(status_messages[i], accounts[i].email)
          /\ notifications[k].text = notification_text(sign_messages, status_messages)

\* the line of the check-in call that just returned
LastSignLine == sign_messages[Len(sign_messages)]
SignReturned == pc = "status" /\ response.op = "checkin" /\ response.resp.transport = "ok"

\* C6: after a check-in call that succeeded at transport level, the line is
\* the DecodeFailure line with the HTTP status code when the body does not
\* decode, and a translator outcome for every body that decodes, the
\* placeholder outcome when the message is missing.
C6_DecodedBodyIsTranslated ==
  SignReturned =>
     LET email == accounts[idx].email
         decode_failure == Prefix(email) \o PARSE_FAILED_HTTP \o response.resp.status_code
     IN  IF ~response.resp.json
           THEN LastSignLine = decode_failure
           ELSE /\ LastSignLine # decode_failure
                /\ "message" \notin response.body.keys =>
                     LastSignLine = Prefix(email) \o UNKNOWN_RESULT \o EMPTY_MESSAGE \o UNKNOWN_END

\* -------------------------------------------------------------------------
\* Properties of translate_message (specification SpecTranslate)
\* -------------------------------------------------------------------------
TranslateReturned == t_pc = "returned" /\ t_result.exc = ""
Text == IF t_raw.t = "str" THEN t_raw.v ELSE <<>>

\* word, in lower case, occurs in s in any casing
ContainsCI(s, word) ==
  \E i \in 1..(Len(s) + 1 - Len(word)) :
     \A k \in 1..Len(word) :
        \/ s[i + k - 1] = word[k]
        \/ s[i + k - 1] \in DOMAIN UpperToLower /\ UpperToLower[s[i + k - 1]] = word[k]

Occurs(s, sub, i) == i >= 1 /\ i + Len(sub) - 1 <= Len(s) /\ SubSeq(s, i, i + Len(sub) - 1) = sub

\* "Got <N> Points" occurs in s at i with an N of n digits
PatternAt(s, i, n) ==
  /\ n >= 1
  /\ Occurs(s, GOT_SP, i)
  /\ i + 3 + n <= Len(s)
  /\ IsDigits(SubSeq(s, i + 4, i + 3 + n))
  /\ Occurs(s, SP_POINTS, i + 4 + n)
Patterns(s) == {p \in (1..Len(s)) \X (1..Len(s)) : PatternAt(s, p[1], p[2])}
NumberOf(s, p) == SubSeq(s, p[1] + 4, p[1] + 3 + p[2])

IsSuccess(ret) == Len(ret) > 0 /\ ret[1] \in {SUCCESS_GOT[1], SUCCESS_PLAIN[1]}
SuccessWith(n) == SUCCESS_GOT \o n \o POINTS_END
SuccessVerbatim(m) == SUCCESS_PLAIN \o m \o <<")">>

\* C7: the rules apply in fixed precedence, first match wins: the exact
\* literal gives RetryTomorrow, else "got" in any casing gives Success (even
\* with "repeat" or "already"), else "repeat" or "already" gives
\* AlreadyCheckedIn, else a non-empty message gives UnknownServerMessage with
\* the message, and an empty or absent one gives the placeholder.
C7_Precedence ==
  t_pc = "returned" =>
     /\ t_result.exc = ""
     /\ IF t_raw = JStr(PLEASE_TRY_TOMORROW) THEN t_result.ret = RETRY_TOMORROW
        ELSE IF ContainsCI(Text, got) THEN IsSuccess(t_result.ret)
        ELSE IF ContainsCI(Text, repeat) \/ ContainsCI(Text, already)
          THEN t_result.ret = ALREADY_CHECKED_IN
        ELSE IF Text # <<>> THEN t_result.ret = UNKNOWN_RESULT \o Text \o UNKNOWN_END
        ELSE t_result.ret = UNKNOWN_RESULT \o EMPTY_MESSAGE \o UNKNOWN_END

\* a message with "got" and with "repeat" or "already" was translated to Success
C7_Witness ==
  /\ TranslateReturned
  /\ ContainsCI(Text, got)
  /\ ContainsCI(Text, repeat) \/ ContainsCI(Text, already)
  /\ IsSuccess(t_result.ret)

\* C8 as stated: with no points supplied, a message containing
\* "Got <N> Points" yields Success carrying N, whatever precedes or follows
\* the pattern, an earlier "Got " included.
C8_ExtractsAnywhere ==
  (TranslateReturned /\ t_points = JNull /\ ContainsCI(Text, got) /\ Patterns(Text) # {}) =>
     \E p \in Patterns(Text) : t_result.ret = SuccessWith(NumberOf(Text, p))

\* C8 amended: with no points supplied, a message containing
\* "Got <N> Points" yields Success carrying N, whatever precedes or follows
\* the pattern, provided no "Got " occurs before the pattern.
C8_ExtractsAtFirstGot ==
  (TranslateReturned /\ t_points = JNull /\ ContainsCI(Text, got)) =>
     \A p \in Patterns(Text) :
        (\A j \in 1..(p[1] - 1) : ~Occurs(Text, GOT_SP, j)) =>
           t_result.ret = SuccessWith(NumberOf(Text, p))

\* the pattern, with text before it and no earlier "Got ", gave its number
C8_Witness ==
  /\ TranslateReturned /\ t_points = JNull
  /\ \E p \in Patterns(Text) :
        /\ p[1] > 1
        /\ \A j \in 1..(p[1] - 1) : ~Occurs(Text, GOT_SP, j)
        /\ t_result.ret = SuccessWith(NumberOf(Text, p))

\* C9 as stated: with no points supplied, a message with "got" in which no
\* number lies between "Got " and " Points" yields Success without points,
\* the message verbatim.
C9_NoNumberNoPoints ==
  (TranslateReturned /\ t_points = JNull /\ ContainsCI(Text, got) /\ Patterns(Text) = {}) =>
     t_result.ret = SuccessVerbatim(Text)

\* C9 amended: with no points supplied, a message with "got" that does not
\* contain the literal "Got " yields Success without points, the message
\* verbatim.
C9_NoMarkerNoPoints ==
  (TranslateReturned /\ t_points = JNull /\ ContainsCI(Text, got)
     /\ \A j \in 1..Len(Text) : ~Occurs(Text, GOT_SP, j)) =>
     t_result.ret = SuccessVerbatim(Text)

\* a message with "got" but without "Got " was shown verbatim
C9_Witness ==
  /\ TranslateReturned /\ t_points = JNull
  /\ ContainsCI(Text, got)
  /\ \A j \in 1..Len(Text) : ~Occurs(Text, GOT_SP, j)
  /\ Len(Text) > Len(got)
  /\ t_result.ret = SuccessVerbatim(Text)

\* C10 as stated: every message containing "Please Try Tomorrow" yields
\* RetryTomorrow, whatever surrounds the literal.
C10_RetryWhenContained ==
  (TranslateReturned /\ \E j \in 1..Len(Text) : Occurs(Text, PLEASE_TRY_TOMORROW, j)) =>
     t_result.ret = RETRY_TOMORROW

\* C10 amended: a message yields RetryTomorrow exactly when it equals
\* "Please Try Tomorrow".
C10_RetryWhenEqual ==
  t_pc = "returned" => (t_result = Returned(RETRY_TOMORROW) <=> t_raw = JStr(PLEASE_TRY_TOMORROW))

\* the literal alone was translated to RetryTomorrow
C10_Witness ==
  /\ TranslateReturned
  /\ t_raw = JStr(PLEASE_TRY_TOMORROW)
  /\ t_result.ret = RETRY_TOMORROW

====
